---------------------------- MODULE Spec2Model ----------------------------
(***************************************************************************)
(* Bank balance-sheet stress simulator (src/app.js).                       *)
(*                                                                         *)
(* The page holds six sliders, a line chart with the rolling history of    *)
(* the stress score and a bar chart with the six normalized drivers.       *)
(* Every trigger (DOMContentLoaded, an "input" event of a slider, a click  *)
(* on a preset button) runs render() to completion on the single           *)
(* JavaScript thread, so every handler is one action here.                 *)
(*                                                                         *)
(* Numbers.  A JavaScript number x is represented by the integer x * One   *)
(* (fixed point, One = 1.0).  Slider values and presets are multiples of   *)
(* Cent = 0.01; on such values every division of the scoring model (by 6,  *)
(* 10, 100, 120) and the product duration * rate are exact in this         *)
(* representation, so the arithmetic below is the real-number arithmetic   *)
(* of the source (binary floating-point rounding is not modelled).         *)
(***************************************************************************)
EXTENDS Integers, Sequences, FiniteSets

VARIABLES
    sliders,    \* the six sliders' value strings
    charts,     \* stressChart's labels and data, driversChart's data
    panel,      \* what render last wrote: score, status pill, loss, text
    listening,  \* DOMContentLoaded has run: charts exist, listeners attached
    now,        \* the wall clock's current second, as the label it formats to
    log,        \* history: the (label, score) of every evaluation cycle so far
    changes,    \* history: clock seconds elapsed plus slider-changing events
    trigger,    \* history: the last trigger handled
    record,     \* scoring study: the input record under evaluation
    result,     \* scoring study: its raw sum, score and duration loss
    prior,      \* scoring study: the field last changed, its old value and score
    probe       \* tier study: a score with the status and sentence it gets

vars ==
    <<sliders, charts, panel, listening, now, log, changes, trigger,
      record, result, prior, probe>>

pageVars == <<sliders, charts, panel, listening, now, log, changes, trigger>>

studyVars == <<record, result, prior, probe>>

\* ---------------------------------------------------------------- numbers

\* The number 1 in fixed point (the upper end of the normalized 0..1 scale).
One == 60000

\* 0.01 in fixed point: the grain of slider values and presets.
Cent == One \div 100

\* The decimal literal i.hh (hh in hundredths), e.g. 2.5 is Dec(2, 50).
Dec(i, hh) == i * One + hh * Cent

\* x / k for an integer literal k (exact on multiples of Cent for k in
\* {6, 10, 100, 120}).
Div(x, k) == x \div k

\* a * b for two fixed-point numbers that are multiples of Cent (exact).
Mul(a, b) == (a \div Cent) * (b \div Cent) * ((Cent * Cent) \div One)

MathMin(a, b) == IF a < b THEN a ELSE b

MathMax(a, b) == IF a > b THEN a ELSE b

\* ------------------------------------------------------------- utilities

\* Mutant: the lower bound is dropped (Math.min only).
clamp_noFloor(min, max, x) == MathMin(max, x)

\* function clamp(min, max, x)
clamp(min, max, x) == MathMax(min, MathMin(max, x))

\* ------------------------------------------------------------------ model

FieldNames ==
    {"rateShockPct", "uninsuredPct", "durationYears",
     "unrealizedLossPctCap", "withdrawalSpeed", "concentration"}

\* Mutant: a weight table edited so that it no longer sums to 100.
weights_heavy ==
    [rateShock |-> 18, uninsured |-> 22, duration |-> 15,
     losses |-> 18, withdrawal |-> 17, concentration |-> 20]

\* const weights = {...}
weights ==
    [rateShock |-> 18, uninsured |-> 22, duration |-> 15,
     losses |-> 18, withdrawal |-> 17, concentration |-> 10]

\* Mutant: the duration factor enters inverted (1 - d).
normalize_inverted(inputs) ==
    [rateShock     |-> clamp(0, One, Div(inputs.rateShockPct, 6)),
     uninsured     |-> clamp(0, One, Div(inputs.uninsuredPct, 100)),
     duration      |-> One - clamp(0, One, Div(inputs.durationYears, 10)),
     losses        |-> clamp(0, One, Div(inputs.unrealizedLossPctCap, 120)),
     withdrawal    |-> clamp(0, One, Div(inputs.withdrawalSpeed, 100)),
     concentration |-> clamp(0, One, Div(inputs.concentration, 100))]

\* The six normalized factors r, u, d, l, w, c of computeStressScore (and
\* the driverVals of updateCharts, which repeats the same expressions).
normalize(inputs) ==
    [rateShock     |-> clamp(0, One, Div(inputs.rateShockPct, 6)),
     uninsured     |-> clamp(0, One, Div(inputs.uninsuredPct, 100)),
     duration      |-> clamp(0, One, Div(inputs.durationYears, 10)),
     losses        |-> clamp(0, One, Div(inputs.unrealizedLossPctCap, 120)),
     withdrawal    |-> clamp(0, One, Div(inputs.withdrawalSpeed, 100)),
     concentration |-> clamp(0, One, Div(inputs.concentration, 100))]

\* const raw = weights.rateShock * r + ... + weights.concentration * c
rawScore(inputs) ==
    LET n == normalize(inputs)
    IN  weights.rateShock * n.rateShock
        + weights.uninsured * n.uninsured
        + weights.duration * n.duration
        + weights.losses * n.losses
        + weights.withdrawal * n.withdrawal
        + weights.concentration * n.concentration

\* function computeStressScore(inputs): return clamp(0, 100, raw)
computeStressScore(inputs) == clamp(0, 100 * One, rawScore(inputs))

\* function estimateDurationLossPct(durationYears, rateShockPct)
estimateDurationLossPct(durationYears, rateShockPct) ==
    clamp(0, 100 * One, Mul(durationYears, rateShockPct))

\* Mutant: the lower threshold is inclusive-high (score <= 40 is Stable).
classifyStatus_inclusive(score) ==
    IF score <= 40 * One THEN [label |-> "Stable", colorVar |-> "--good"]
    ELSE IF score < 70 * One THEN [label |-> "At Risk", colorVar |-> "--warn"]
    ELSE [label |-> "Critical", colorVar |-> "--bad"]

\* function classifyStatus(score)
classifyStatus(score) ==
    IF score < 40 * One THEN [label |-> "Stable", colorVar |-> "--good"]
    ELSE IF score < 70 * One THEN [label |-> "At Risk", colorVar |-> "--warn"]
    ELSE [label |-> "Critical", colorVar |-> "--bad"]

\* The three canned sentences of interpretationText, by their first words.
TextResilient == "Balance-sheet and run dynamics appear resilient ..."

TextMultiple == "Multiple risk factors are present ..."

TextFragile == "Conditions resemble high fragility ..."

\* Mutant: the upper threshold is inclusive-high (score <= 70 still "Multiple").
interpretationText_inclusive(score) ==
    IF score < 40 * One THEN TextResilient
    ELSE IF score <= 70 * One THEN TextMultiple
    ELSE TextFragile

\* function interpretationText(score)
interpretationText(score) ==
    IF score < 40 * One THEN TextResilient
    ELSE IF score < 70 * One THEN TextMultiple
    ELSE TextFragile

\* ------------------------------------------------------------- DOM wiring

\* const sliders = { rateShock: ..., ..., concentration: ... }
SliderNames ==
    {"rateShock", "uninsured", "duration", "losses", "withdrawal",
     "concentration"}

\* The string an element's value property holds after a number is assigned
\* to it (sliders.x.value = p.y), as its sign, integer digits and hundredths.
ToString(x) ==
    LET m == IF x < 0 THEN 0 - x ELSE x
    IN  [neg |-> x < 0, int |-> m \div One, frac |-> (m % One) \div Cent]

\* Number(str) of a slider's value string.
Number(str) ==
    LET m == str.int * One + str.frac * Cent
    IN  IF str.neg THEN 0 - m ELSE m

\* const readInputs = () => ({...})
readInputs(sl) ==
    [rateShockPct         |-> Number(sl.rateShock),
     uninsuredPct         |-> Number(sl.uninsured),
     durationYears        |-> Number(sl.duration),
     unrealizedLossPctCap |-> Number(sl.losses),
     withdrawalSpeed      |-> Number(sl.withdrawal),
     concentration        |-> Number(sl.concentration)]

\* ----------------------------------------------------------------- charts

\* "last 30 points": the length above which updateCharts shifts.
HistoryCap == 30

\* function initCharts(): both charts as created, before any update.
initCharts ==
    [labels  |-> << >>,
     data    |-> << >>,
     drivers |-> <<0, 0, 0, 0, 0, 0>>]

\* arr.shift() as a statement: the array without its first element (no-op on
\* an empty array).
Shift(arr) == IF arr = << >> THEN arr ELSE Tail(arr)

\* The driverVals array of updateCharts.
driverVals(inputs) ==
    <<clamp(0, One, Div(inputs.rateShockPct, 6)),
      clamp(0, One, Div(inputs.uninsuredPct, 100)),
      clamp(0, One, Div(inputs.durationYears, 10)),
      clamp(0, One, Div(inputs.unrealizedLossPctCap, 120)),
      clamp(0, One, Div(inputs.withdrawalSpeed, 100)),
      clamp(0, One, Div(inputs.concentration, 100))>>

\* Mutant: the window is cut only above 31 entries (off by one).
updateCharts_offByOne(ch, inputs, score, nowLabel) ==
    LET labels1 == Append(ch.labels, nowLabel)
        data1   == Append(ch.data, score)
        over    == Len(labels1) > HistoryCap + 1
    IN  [labels  |-> IF over THEN Shift(labels1) ELSE labels1,
         data    |-> IF over THEN Shift(data1) ELSE data1,
         drivers |-> driverVals(inputs)]

\* Mutant: on overflow the scores lose their newest-but-one end (pop before
\* push) instead of their oldest.
updateCharts_popsData(ch, inputs, score, nowLabel) ==
    LET labels1 == Append(ch.labels, nowLabel)
        over    == Len(labels1) > HistoryCap
    IN  [labels  |-> IF over THEN Shift(labels1) ELSE labels1,
         data    |-> IF over THEN Append(SubSeq(ch.data, 1, Len(ch.data) - 1), score)
                             ELSE Append(ch.data, score),
         drivers |-> driverVals(inputs)]

\* Mutant: on overflow only the labels are shifted.
updateCharts_labelsOnly(ch, inputs, score, nowLabel) ==
    LET labels1 == Append(ch.labels, nowLabel)
        data1   == Append(ch.data, score)
        over    == Len(labels1) > HistoryCap
    IN  [labels  |-> IF over THEN Shift(labels1) ELSE labels1,
         data    |-> data1,
         drivers |-> driverVals(inputs)]

\* function updateCharts(inputs, score), with the charts it updates and the
\* label new Date().toLocaleTimeString(...) gives passed in.
updateCharts(ch, inputs, score, nowLabel) ==
    LET labels1 == Append(ch.labels, nowLabel)
        data1   == Append(ch.data, score)
        over    == Len(labels1) > HistoryCap
    IN  [labels  |-> IF over THEN Shift(labels1) ELSE labels1,
         data    |-> IF over THEN Shift(data1) ELSE data1,
         drivers |-> driverVals(inputs)]

\* ---------------------------------------------------------------- presets

\* const presets = { svb, stable, rateShock, run }
presets ==
    [svb       |-> [rateShockPct |-> Dec(2, 50), uninsuredPct |-> Dec(80, 0),
                    durationYears |-> Dec(6, 50),
                    unrealizedLossPctCap |-> Dec(65, 0),
                    withdrawalSpeed |-> Dec(85, 0),
                    concentration |-> Dec(85, 0)],
     stable    |-> [rateShockPct |-> Dec(1, 0), uninsuredPct |-> Dec(25, 0),
                    durationYears |-> Dec(3, 0),
                    unrealizedLossPctCap |-> Dec(15, 0),
                    withdrawalSpeed |-> Dec(25, 0),
                    concentration |-> Dec(30, 0)],
     rateShock |-> [rateShockPct |-> Dec(4, 50), uninsuredPct |-> Dec(45, 0),
                    durationYears |-> Dec(7, 50),
                    unrealizedLossPctCap |-> Dec(55, 0),
                    withdrawalSpeed |-> Dec(40, 0),
                    concentration |-> Dec(45, 0)],
     run       |-> [rateShockPct |-> Dec(2, 0), uninsuredPct |-> Dec(70, 0),
                    durationYears |-> Dec(5, 50),
                    unrealizedLossPctCap |-> Dec(35, 0),
                    withdrawalSpeed |-> Dec(95, 0),
                    concentration |-> Dec(90, 0)]]

PresetNames == DOMAIN presets

\* ------------------------------------------------------------ render loop

\* Mutant: render updates the charts twice per cycle.
render_twice(sl, ch, nowLabel) ==
    LET inputs == readInputs(sl)
        score  == computeStressScore(inputs)
    IN  [panel  |-> [stressScore    |-> score,
                     statusPill     |-> classifyStatus(score).label,
                     durationLoss   |->
                         estimateDurationLossPct(inputs.durationYears,
                                                 inputs.rateShockPct),
                     interpretation |-> interpretationText(score)],
         charts |-> updateCharts(updateCharts(ch, inputs, score, nowLabel),
                                 inputs, score, nowLabel)]

\* function render(): the texts it writes (numbers before fmt) and the
\* charts after updateCharts.  syncValueLabels only echoes the inputs into
\* label texts and is left out.
render(sl, ch, nowLabel) ==
    LET inputs == readInputs(sl)
        score  == computeStressScore(inputs)
    IN  [panel  |-> [stressScore    |-> score,
                     statusPill     |-> classifyStatus(score).label,
                     durationLoss   |->
                         estimateDurationLossPct(inputs.durationYears,
                                                 inputs.rateShockPct),
                     interpretation |-> interpretationText(score)],
         charts |-> updateCharts(ch, inputs, score, nowLabel)]

\* The six assignments of setPreset: sliders.x.value = p.y.
assignPreset(sl, p) ==
    LET s1 == [sl EXCEPT !.rateShock = ToString(p.rateShockPct)]
        s2 == [s1 EXCEPT !.uninsured = ToString(p.uninsuredPct)]
        s3 == [s2 EXCEPT !.duration = ToString(p.durationYears)]
        s4 == [s3 EXCEPT !.losses = ToString(p.unrealizedLossPctCap)]
        s5 == [s4 EXCEPT !.withdrawal = ToString(p.withdrawalSpeed)]
    IN  [s5 EXCEPT !.concentration = ToString(p.concentration)]

\* Mutant: render() is called before the last slider is assigned.
setPreset_earlyRender(sl, ch, nowLabel, p) ==
    LET s1 == [sl EXCEPT !.rateShock = ToString(p.rateShockPct)]
        s2 == [s1 EXCEPT !.uninsured = ToString(p.uninsuredPct)]
        s3 == [s2 EXCEPT !.duration = ToString(p.durationYears)]
        s4 == [s3 EXCEPT !.losses = ToString(p.unrealizedLossPctCap)]
        s5 == [s4 EXCEPT !.withdrawal = ToString(p.withdrawalSpeed)]
        s6 == [s5 EXCEPT !.concentration = ToString(p.concentration)]
    IN  [sliders |-> s6, out |-> render(s5, ch, nowLabel)]

\* function setPreset(p): six assignments, then render().
setPreset(sl, ch, nowLabel, p) ==
    LET s6 == assignPreset(sl, p)
    IN  [sliders |-> s6, out |-> render(s6, ch, nowLabel)]

\* ------------------------------------------------------------- the page

\* The divisor computeStressScore normalizes each slider by: its ceiling.
Ceiling ==
    [rateShock |-> 6 * One, uninsured |-> 100 * One, duration |-> 10 * One,
     losses |-> 120 * One, withdrawal |-> 100 * One,
     concentration |-> 100 * One]

\* The sliders' values when the page loads (the markup is not part of
\* app.js): all at zero, or all at a quarter of their ceilings.
ZeroSliders == [s \in SliderNames |-> ToString(0)]

StartSliders ==
    {ZeroSliders, [s \in SliderNames |-> ToString(Ceiling[s] \div 4)]}

\* The long run's palette: the sliders dragged, the value each is dragged to
\* (half its ceiling), and the presets clicked.
DragSliders == {"rateShock", "withdrawal"}

DragVals(s) == {ToString(Ceiling[s] \div 2)}

LongPresets == {"svb", "stable"}

\* The values a slider takes in a short session: half its ceiling, or one
\* and a half times its ceiling (above the natural range).
TypedVals(s) ==
    {ToString(Ceiling[s] \div 2), ToString(Ceiling[s] + Ceiling[s] \div 2)}

\* Bounds of the long run: evaluation cycles, and environment changes (a
\* second elapsing, or a trigger that changes a slider's value).
MaxCycles == 35

MaxChanges == 1

\* Bounds of the short session.
SessionCycles == 3

SessionChanges == 3

Last(arr) == arr[Len(arr)]

NoPanel ==
    [stressScore |-> 0, statusPill |-> "", durationLoss |-> 0,
     interpretation |-> ""]

\* The studies' variables before anything is evaluated.
NoResult == [done |-> FALSE, raw |-> 0, score |-> 0, durationLoss |-> 0]

NoPrior == [field |-> "none", value |-> 0, score |-> 0]

NoProbe == [score |-> 0, status |-> "", text |-> ""]

StudyIdle ==
    /\ record = [f \in FieldNames |-> 0]
    /\ result = NoResult
    /\ prior = NoPrior
    /\ probe = NoProbe

\* The page as the script finds it: no chart created, no listener attached.
PageAtLoad(starts) ==
    /\ sliders \in starts
    /\ charts = initCharts
    /\ panel = NoPanel
    /\ listening = FALSE
    /\ now = 0
    /\ log = << >>
    /\ changes = 0
    /\ trigger = [kind |-> "none", preset |-> "none"]
    /\ StudyIdle

Init == PageAtLoad({ZeroSliders})

InitSession == PageAtLoad(StartSliders)

\* The environment's budget: a trigger leaving the sliders at sl stays
\* within limit changes.
Within(limit, sl) == changes + (IF sl = sliders THEN 0 ELSE 1) <= limit

\* What every handler leaves behind: render's output, and the history.
Rendered(sl, out, kind, preset) ==
    /\ sliders' = sl
    /\ charts' = out.charts
    /\ panel' = out.panel
    /\ log' = Append(log, [label |-> now, score |-> out.panel.stressScore])
    /\ changes' = changes + (IF sl = sliders THEN 0 ELSE 1)
    /\ trigger' = [kind |-> kind, preset |-> preset]
    /\ UNCHANGED <<now, studyVars>>

\* document.addEventListener("DOMContentLoaded", ...): initCharts(),
\* attachListeners(), render().
DOMContentLoaded ==
    /\ ~listening
    /\ listening' = TRUE
    /\ Rendered(sliders, render(sliders, initCharts, now), "load", "none")

\* s.addEventListener("input", render): the browser has set slider s to v.
SliderInput(s, v) ==
    /\ listening
    /\ LET sl == [sliders EXCEPT ![s] = v]
       IN  Rendered(sl, render(sl, charts, now), "input", "none")
    /\ UNCHANGED listening

\* el("preset...").addEventListener("click", () => setPreset(presets.p))
PresetClick(p) ==
    /\ listening
    /\ LET r == setPreset(sliders, charts, now, presets[p])
       IN  Rendered(r.sliders, r.out, "preset", p)
    /\ UNCHANGED listening

\* A second elapses: new Date() formats to the next label.
Tick ==
    /\ now' = now + 1
    /\ changes' = changes + 1
    /\ UNCHANGED <<sliders, charts, panel, listening, log, trigger, studyVars>>

\* The long run.
Next ==
    \/ DOMContentLoaded
    \/ \E s \in DragSliders : \E v \in DragVals(s) \cup {sliders[s]} :
           /\ Len(log) < MaxCycles
           /\ Within(MaxChanges, [sliders EXCEPT ![s] = v])
           /\ SliderInput(s, v)
    \/ \E p \in LongPresets :
           /\ Len(log) < MaxCycles
           /\ Within(MaxChanges, assignPreset(sliders, presets[p]))
           /\ PresetClick(p)
    \/ changes < MaxChanges /\ Tick

Spec == Init /\ [][Next]_vars

\* The short session.
NextSession ==
    \/ DOMContentLoaded
    \/ \E s \in SliderNames : \E v \in TypedVals(s) \cup {sliders[s]} :
           /\ Len(log) < SessionCycles
           /\ Within(SessionChanges, [sliders EXCEPT ![s] = v])
           /\ SliderInput(s, v)
    \/ \E p \in PresetNames :
           /\ Len(log) < SessionCycles
           /\ Within(SessionChanges, assignPreset(sliders, presets[p]))
           /\ PresetClick(p)
    \/ changes < SessionChanges /\ Tick

SpecSession == InitSession /\ [][NextSession]_vars

\* ------------------------------------------------------ the scoring study
\* computeStressScore and estimateDurationLossPct as pure functions, applied
\* to input records inside and outside the natural ranges.

\* The divisor of each input field in computeStressScore.
FieldCeiling ==
    [rateShockPct |-> 6 * One, uninsuredPct |-> 100 * One,
     durationYears |-> 10 * One, unrealizedLossPctCap |-> 120 * One,
     withdrawalSpeed |-> 100 * One, concentration |-> 100 * One]

\* The values a field takes: negative, zero, mid-range, its ceiling, above.
FieldVals(f) ==
    LET c == FieldCeiling[f]
    IN  {0 - c \div 2, 0, c \div 2, c, c + c \div 2}

InputRecords ==
    {[rateShockPct |-> r, uninsuredPct |-> u, durationYears |-> d,
      unrealizedLossPctCap |-> l, withdrawalSpeed |-> w, concentration |-> c] :
        r \in FieldVals("rateShockPct"), u \in FieldVals("uninsuredPct"),
        d \in FieldVals("durationYears"),
        l \in FieldVals("unrealizedLossPctCap"),
        w \in FieldVals("withdrawalSpeed"), c \in FieldVals("concentration")}

\* What render computes from an input record: the weighted sum before the
\* final clamp, the score, and the duration loss.
Evaluate(rec) ==
    [done         |-> TRUE,
     raw          |-> rawScore(rec),
     score        |-> computeStressScore(rec),
     durationLoss |-> estimateDurationLossPct(rec.durationYears,
                                              rec.rateShockPct)]

PageIdle ==
    /\ sliders = ZeroSliders
    /\ charts = initCharts
    /\ panel = NoPanel
    /\ listening = FALSE
    /\ now = 0
    /\ log = << >>
    /\ changes = 0
    /\ trigger = [kind |-> "none", preset |-> "none"]

\* Any record of the six fields, not yet evaluated.
InitScore ==
    /\ PageIdle
    /\ record \in InputRecords
    /\ result = NoResult
    /\ prior = NoPrior
    /\ probe = NoProbe

\* The record is evaluated.
EvaluateRecord ==
    /\ ~result.done
    /\ result' = Evaluate(record)
    /\ UNCHANGED <<pageVars, record, prior, probe>>

\* One field of the evaluated record is changed and the record is evaluated
\* again.  Every record is an initial one, so one change from each reaches
\* every pair of records that differ in exactly one field.
SetField(f, v) ==
    /\ result.done
    /\ prior.field = "none"
    /\ v # record[f]
    /\ record' = [record EXCEPT ![f] = v]
    /\ result' = Evaluate(record')
    /\ prior' = [field |-> f, value |-> record[f], score |-> result.score]
    /\ UNCHANGED <<pageVars, probe>>

NextScore ==
    \/ EvaluateRecord
    \/ \E f \in FieldNames : \E v \in FieldVals(f) : SetField(f, v)

SpecScore == InitScore /\ [][NextScore]_vars

\* --------------------------------------------------------- the tier study
\* classifyStatus and interpretationText applied to scores, among them the
\* thresholds and their nearest neighbours.

\* How far below 0 and above 100 the whole-number scores go.
ProbeMargin == 2

ProbeScores ==
    {k * One : k \in (0 - ProbeMargin)..(100 + ProbeMargin)}
    \cup {b + e : b \in {0, 40 * One, 70 * One, 100 * One}, e \in {0 - 1, 1}}

Judge(s) ==
    [score |-> s, status |-> classifyStatus(s).label,
     text |-> interpretationText(s)]

\* Any probe score, not yet judged.
InitTier ==
    /\ PageIdle
    /\ record = [f \in FieldNames |-> 0]
    /\ result = NoResult
    /\ prior = NoPrior
    /\ \E s \in ProbeScores : probe = [score |-> s, status |-> "", text |-> ""]

\* The probe score is classified and interpreted.
Classify ==
    /\ probe.status = ""
    /\ probe' = Judge(probe.score)
    /\ UNCHANGED <<pageVars, record, result, prior>>

NextTier == Classify

SpecTier == InitTier /\ [][NextTier]_vars

\* ----------------------------------------------------------------- claims

\* The last k elements of arr (all of it when it has fewer).
Window(arr, k) ==
    IF Len(arr) <= k THEN arr ELSE SubSeq(arr, Len(arr) - k + 1, Len(arr))

Scores(samples) == [i \in 1..Len(samples) |-> samples[i].score]

\* C1: after every evaluation cycle, whatever triggers came before, the
\* stress time-series holds at most 30 labels and at most 30 scores.
C1_HistoryBounded ==
    /\ Len(charts.labels) <= HistoryCap
    /\ Len(charts.data) <= HistoryCap

\* More than 30 cycles have run and the history is full.
C1_Witness == Len(log) > HistoryCap /\ Len(charts.data) = HistoryCap

\* C2: eviction is strict FIFO: after n cycles the scores in the chart are
\* exactly the last min(n, 30) appended scores, oldest first.
C2_StrictFifo == charts.data = Window(Scores(log), HistoryCap)

\* A sample was evicted whose score differs from the one now oldest, and the
\* run is long enough for the 35-sample scenario.
C2_Witness ==
    /\ Len(log) = 35
    /\ log[1].score # log[6].score
    /\ charts.data[1] = log[6].score
    /\ Last(charts.data) = log[35].score

\* C3: for every record of six finite numbers, negative and above-ceiling
\* values included, the score and the duration loss are within [0, 100].
C3_RangeInvariant ==
    result.done =>
        /\ 0 <= result.score /\ result.score <= 100 * One
        /\ 0 <= result.durationLoss /\ result.durationLoss <= 100 * One

\* A record with a negative rate shock and a duration above its ceiling,
\* whose product is negative, has been evaluated.
C3_Witness ==
    /\ result.done
    /\ record.rateShockPct < 0
    /\ record.durationYears > FieldCeiling.durationYears
    /\ record.uninsuredPct > FieldCeiling.uninsuredPct
    /\ result.durationLoss = 0
    /\ result.score > 0

\* C4: on [0, 100] classifyStatus gives Stable exactly below 40, At Risk
\* exactly from 40 up to but not including 70, Critical exactly from 70 on:
\* one tier per score, boundaries inclusive-low.
C4_TierBands ==
    (probe.status # "" /\ 0 <= probe.score /\ probe.score <= 100 * One) =>
        /\ probe.status \in {"Stable", "At Risk", "Critical"}
        /\ (probe.status = "Stable") <=> (probe.score < 40 * One)
        /\ (probe.status = "At Risk") <=>
               (40 * One <= probe.score /\ probe.score < 70 * One)
        /\ (probe.status = "Critical") <=> (70 * One <= probe.score)

\* The score exactly 40 has been classified (as At Risk).
C4_Witness == probe.score = 40 * One /\ probe.status = "At Risk"

\* C5: of two records that differ in exactly one field, the one with the
\* larger value in that field never has the smaller score.
C5_Monotone ==
    (prior.field # "none") =>
        /\ (record[prior.field] >= prior.value) => (result.score >= prior.score)
        /\ (record[prior.field] <= prior.value) => (result.score <= prior.score)

\* A field was raised within its range while another field is negative, and
\* the score rose.
C5_Witness ==
    /\ prior.field = "durationYears"
    /\ record.durationYears > prior.value
    /\ record.concentration < 0
    /\ result.score > prior.score

\* C6: the six weights sum to exactly 100, and the weighted sum is within
\* [0, 100] before the final clamp, which therefore changes nothing.
C6_ClampIsNoOp ==
    /\ weights.rateShock + weights.uninsured + weights.duration
       + weights.losses + weights.withdrawal + weights.concentration = 100
    /\ result.done =>
           /\ 0 <= result.raw /\ result.raw <= 100 * One
           /\ result.score = result.raw

\* A record with every field at or above its ceiling reaches the raw sum 100.
C6_Witness ==
    /\ result.done
    /\ result.raw = 100 * One
    /\ record.uninsuredPct > FieldCeiling.uninsuredPct
    /\ record.rateShockPct = FieldCeiling.rateShockPct

\* C7: every cycle evaluates the six sliders as they stand once the handler
\* has finished with them: the score shown, the score appended and the six
\* drivers all belong to that one record; after a preset click the record is
\* the preset's and the appended score the preset's score.
C7_ConsistentSnapshot ==
    listening =>
        /\ panel.stressScore = computeStressScore(readInputs(sliders))
        /\ Last(charts.data) = computeStressScore(readInputs(sliders))
        /\ Last(log).score = Last(charts.data)
        /\ charts.drivers = driverVals(readInputs(sliders))
        /\ (trigger.kind = "preset") =>
               /\ readInputs(sliders) = presets[trigger.preset]
               /\ Last(charts.data) = computeStressScore(presets[trigger.preset])

\* The svb preset was clicked right after a slider input had changed the
\* score, on sliders none of which stood at the preset's value.
C7_Witness ==
    /\ trigger.kind = "preset"
    /\ trigger.preset = "svb"
    /\ Len(log) = 3
    /\ log[1].score < log[2].score
    /\ log[2].score < log[3].score
    /\ Last(charts.data) = computeStressScore(presets.svb)

\* C8: the history starts empty; every trigger appends exactly one sample,
\* so its length grows by one below 30 and stays 30 from then on; nothing
\* else changes it, and it never shrinks.
C8_OneSamplePerTrigger ==
    /\ (~listening) => (charts.data = << >> /\ charts.labels = << >>)
    /\ [][ IF trigger' # trigger \/ log' # log
           THEN /\ Len(log') = Len(log) + 1
                /\ Len(charts'.data) =
                       (IF Len(charts.data) < HistoryCap
                        THEN Len(charts.data) + 1 ELSE HistoryCap)
           ELSE charts'.data = charts.data ]_vars

\* A preset click on a full history left it full.
C8_Witness ==
    /\ trigger.kind = "preset"
    /\ Len(log) > HistoryCap + 1
    /\ Len(charts.data) = HistoryCap

\* The sentence that belongs to each tier.
SentenceOf(status) ==
    CASE status = "Stable" -> TextResilient
      [] status = "At Risk" -> TextMultiple
      [] status = "Critical" -> TextFragile

\* C9: every score gets the sentence of the tier classifyStatus gives it, and
\* two scores get the same sentence exactly when they get the same tier.
C9_TextFollowsTier ==
    (probe.status # "") =>
        /\ probe.text = SentenceOf(probe.status)
        /\ \A s \in ProbeScores :
               (interpretationText(s) = probe.text)
                   <=> (classifyStatus(s).label = probe.status)

\* The score exactly 70 has been judged: Critical, with the fragility text.
C9_Witness ==
    /\ probe.score = 70 * One
    /\ probe.status = "Critical"
    /\ probe.text = TextFragile

\* C10: labels and scores stay in lockstep: the two arrays have the same
\* length and index i of both holds the label and the score of one cycle.
C10_Lockstep ==
    /\ Len(charts.labels) = Len(charts.data)
    /\ LET off == Len(log) - Len(charts.labels)
       IN  \A i \in 1..Len(charts.labels) :
               /\ off + i \in 1..Len(log)
               /\ charts.labels[i] = log[off + i].label
               /\ charts.data[i] = log[off + i].score

\* After an eviction the chart holds samples of two different seconds.
C10_Witness ==
    /\ Len(log) > HistoryCap
    /\ charts.labels[1] # Last(charts.labels)
    /\ Len(charts.labels) = HistoryCap

=============================================================================
